---- MODULE Spec2Model ----
(***************************************************************************)
(* Model of tno.quantum.optimization.qubo.solvers._qaoa._qaoa_result:      *)
(* QAOAResult.__init__, QAOAResult.from_result and the three plot methods. *)
(*                                                                         *)
(* A bitstring key is a sequence of the characters "0"/"1"; a BitVector is *)
(* a sequence of the integers 0/1.  A Python dict is a sequence of         *)
(* [key, occ] pairs with pairwise distinct keys, in insertion order.       *)
(* Python lists that can be aliased live in `heap`; a reference to a list  *)
(* is its index in `heap`.  An optional value (None or a value) is a       *)
(* sequence of length 0 or 1.                                              *)
(***************************************************************************)
EXTENDS Integers, Sequences, FiniteSets, TLC

\* ---------------------------------------------------------------- bounds
NBits == 2          \* longest bitstring key
MaxKeys == 2        \* most keys of raw_result
MaxCount == 2       \* largest occurrence count
MaxScore == 1       \* scores are 0..MaxScore
MaxDepth == 2       \* longest parameter / history list
MaxParam == 1       \* list elements written by the caller are 0..MaxParam
MaxMutations == 1   \* caller-side mutations after the build

VARIABLES
    raw_result,   \* the dict handed to from_result: Seq of [key, occ]
    qubo,         \* qubo.evaluate restricted to the sampled bitvectors
    properties,   \* the dict handed to from_result: name -> heap reference / config
    heap,         \* list objects: Seq of [ndim, data]
    pc,           \* "start" | "returned" | "raised"
    error,        \* the exception from_result raised, "" if none
    result,       \* <<>> or <<the QAOAResult>>
    evaluated,    \* log of the arguments of qubo.evaluate, in call order
    plot,         \* <<>> or <<what the last plot method handed to the Axes>>
    mutations     \* number of caller-side list mutations so far

vars == <<raw_result, qubo, properties, heap, pc, error, result, evaluated, plot, mutations>>

\* ------------------------------------------------------------ conversions
\* BitVector(s) for a bitstring s (line 88)
BitVector(s) == [i \in 1..Len(s) |-> IF s[i] = "1" THEN 1 ELSE 0]

\* str(bitvector) (line 160)
Str(b) == [i \in 1..Len(b) |-> IF b[i] = 1 THEN "1" ELSE "0"]

\* int(s, 2): most significant character first (line 160)
RECURSIVE IntBase2(_)
IntBase2(s) ==
    IF Len(s) = 0 THEN 0
    ELSE 2 * IntBase2(SubSeq(s, 1, Len(s) - 1)) + (IF s[Len(s)] = "1" THEN 1 ELSE 0)

\* ["".join(bits) for bits in itertools.product("01", repeat=n)] (line 157):
\* the rightmost position advances fastest
RECURSIVE Product01(_)
Product01(n) ==
    IF n <= 0 THEN << <<>> >>
    ELSE LET prev == Product01(n - 1)
         IN  [i \in 1..(2 * Len(prev)) |->
                 Append(prev[((i - 1) \div 2) + 1],
                        IF (i - 1) % 2 = 0 THEN "0" ELSE "1")]

\* ----------------------------------------------------------------- Freq
\* raw_result[s] (line 90)
Lookup(raw, s) == raw[CHOOSE i \in 1..Len(raw) : raw[i].key = s].occ

\* [BitVector(s) for s in raw_result] (line 88)
Bitvectors(raw) == [i \in 1..Len(raw) |-> BitVector(raw[i].key)]

\* [qubo.evaluate(b) for b in bitvectors] (line 89)
Energies(q, bvs) == [i \in 1..Len(bvs) |-> q[bvs[i]]]

\* the calls of qubo.evaluate made by line 89, in order
EvaluateCalls(bvs) == bvs

\* NumOccurrences with a fault: the counts taken in the opposite order to the keys
ReversedOccurrences(raw) == [i \in 1..Len(raw) |-> Lookup(raw, raw[Len(raw) + 1 - i].key)]

\* [raw_result[s] for s in raw_result] (line 90)
NumOccurrences(raw) == [i \in 1..Len(raw) |-> Lookup(raw, raw[i].key)]

\* Freq(bitvectors, energies, num_occurrences) (line 92)
Freq(bvs, es, occs) == [bitvectors |-> bvs, energies |-> es, num_occurrences |-> occs]

\* iterating a Freq: zip(bitvectors, energies, num_occurrences) (lines 98, 159)
Min3(a, b, c) == IF a <= b /\ a <= c THEN a ELSE IF b <= c THEN b ELSE c
FreqIter(f) ==
    [i \in 1..Min3(Len(f.bitvectors), Len(f.energies), Len(f.num_occurrences)) |->
        <<f.bitvectors[i], f.energies[i], f.num_occurrences[i]>>]

\* ---------------------------------------------------- the best-entry scan
\* NoBest with a fault: the running best starts from a sentinel instead of None
NoBestSentinel == [best_bitvector |-> << <<0>> >>, best_value |-> <<0>>, occ_best_bitvector |-> <<0>>]

\* lines 95-97
NoBest == [best_bitvector |-> <<>>, best_value |-> <<>>, occ_best_bitvector |-> <<>>]

\* Better with a fault: >= in place of > on the occurrence count
BetterLastWins(best, value, occ) ==
    \/ best.best_value = <<>>
    \/ best.occ_best_bitvector = <<>>
    \/ value < best.best_value[1]
    \/ (value = best.best_value[1] /\ occ >= best.occ_best_bitvector[1])

\* lines 99-104
Better(best, value, occ) ==
    \/ best.best_value = <<>>
    \/ best.occ_best_bitvector = <<>>
    \/ value < best.best_value[1]
    \/ (value = best.best_value[1] /\ occ > best.occ_best_bitvector[1])

\* ScanStep with a fault: line 106 missing, best_value is set once and then kept
ScanStepStaleValue(best, entry) ==
    IF Better(best, entry[2], entry[3])
    THEN [best_bitvector |-> <<entry[1]>>,
          best_value |-> IF best.best_value = <<>> THEN <<entry[2]>> ELSE best.best_value,
          occ_best_bitvector |-> <<entry[3]>>]
    ELSE best

\* one iteration of the loop body, lines 99-107; entry = <<bitvector, value, occ>>
ScanStep(best, entry) ==
    IF Better(best, entry[2], entry[3])
    THEN [best_bitvector |-> <<entry[1]>>,
          best_value |-> <<entry[2]>>,
          occ_best_bitvector |-> <<entry[3]>>]
    ELSE best

\* the loop of lines 98-107 after its first n iterations
RECURSIVE ScanPrefix(_, _)
ScanPrefix(entries, n) ==
    IF n = 0 THEN NoBest ELSE ScanStep(ScanPrefix(entries, n - 1), entries[n])

\* ScanEvaluateCalls with a fault: the loop scores every entry again
ScanReevaluates(entries) == [i \in 1..Len(entries) |-> entries[i][1]]

\* the calls of qubo.evaluate made by the loop of lines 98-107: none
ScanEvaluateCalls(entries) == <<>>

\* ------------------------------------------------------------ list copies
\* ListCopy with a fault: the caller's list itself is kept
ListAlias(h, a) == <<h, a>>

\* list(x) (lines 114-118): a new list object with the items of x; <<heap, ref>>
ListCopy(h, a) == <<Append(h, h[a]), Len(h) + 1>>

\* lines 114-118, in order: <<heap, [field |-> ref]>>
CopyTrace(h, props) ==
    LET c1 == ListCopy(h, props.init_beta)
        c2 == ListCopy(c1[1], props.init_gamma)
        c3 == ListCopy(c2[1], props.final_beta)
        c4 == ListCopy(c3[1], props.final_gamma)
        c5 == ListCopy(c4[1], props.expval_history)
    IN  <<c5[1], [init_beta |-> c1[2], init_gamma |-> c2[2], final_beta |-> c3[2],
                  final_gamma |-> c4[2], expval_history |-> c5[2]]>>

\* check_arraylike(x, name, ndim=1) (lines 57-61): TRUE iff it does not raise.
\* It hands back the array it was given (numpy.asarray does not copy an array).
CheckArraylike(h, a) == h[a].ndim = 1

\* QAOAResultInit with an added check: final_beta and final_gamma must agree in length
QAOAResultInitEqualDepth(h, bb, bv, freq, refs, props) ==
    IF /\ \A f \in {refs.init_beta, refs.init_gamma, refs.final_beta, refs.final_gamma,
                     refs.expval_history} : CheckArraylike(h, f)
       /\ Len(h[refs.final_beta].data) = Len(h[refs.final_gamma].data)
    THEN << [best_bitvector |-> bb, best_value |-> bv, freq |-> freq,
             init_beta |-> refs.init_beta, init_gamma |-> refs.init_gamma,
             final_beta |-> refs.final_beta, final_gamma |-> refs.final_gamma,
             expval_history |-> refs.expval_history,
             training_backend |-> props.training_backend,
             evaluation_backend |-> props.evaluation_backend,
             optimizer |-> props.optimizer] >>
    ELSE <<>>

\* QAOAResult.__init__ (lines 55-64): <<>> if a check raises, else <<the object>>.
\* ResultInterface.__init__ (line 55) keeps best_bitvector, best_value and freq.
QAOAResultInit(h, bb, bv, freq, refs, props) ==
    IF /\ CheckArraylike(h, refs.init_beta)
       /\ CheckArraylike(h, refs.init_gamma)
       /\ CheckArraylike(h, refs.final_beta)
       /\ CheckArraylike(h, refs.final_gamma)
       /\ CheckArraylike(h, refs.expval_history)
    THEN << [best_bitvector |-> bb, best_value |-> bv, freq |-> freq,
             init_beta |-> refs.init_beta, init_gamma |-> refs.init_gamma,
             final_beta |-> refs.final_beta, final_gamma |-> refs.final_gamma,
             expval_history |-> refs.expval_history,
             training_backend |-> props.training_backend,
             evaluation_backend |-> props.evaluation_backend,
             optimizer |-> props.optimizer] >>
    ELSE <<>>

\* ------------------------------------------------------------ from_result
\* the ValueError of lines 110-111
EmptyError == "ValueError: Argument raw_result is empty"

\* the ValueError check_arraylike raises for an array that is not one-dimensional
NdimError == "ValueError: not one-dimensional"

\* QAOAResult.from_result (lines 88-132).  Each local of the method is bound
\* once, in the order the method assigns it.
from_result ==
    /\ pc = "start"
    /\ \E bitvectors \in {Bitvectors(raw_result)} :
       \E energies \in {Energies(qubo, bitvectors)} :
       \E num_occurrences \in {NumOccurrences(raw_result)} :
       \E freq \in {Freq(bitvectors, energies, num_occurrences)} :
       \E entries \in {FreqIter(freq)} :
       \E best \in {ScanPrefix(entries, Len(entries))} :
          /\ evaluated' = evaluated \o EvaluateCalls(bitvectors) \o ScanEvaluateCalls(entries)
          /\ IF best.best_bitvector = <<>> \/ best.best_value = <<>>
             THEN /\ pc' = "raised"
                  /\ error' = EmptyError
                  /\ UNCHANGED <<heap, result>>
             ELSE \E copied \in {CopyTrace(heap, properties)} :
                  \E obj \in {QAOAResultInit(copied[1], best.best_bitvector[1],
                                             best.best_value[1], freq, copied[2], properties)} :
                     /\ heap' = copied[1]
                     /\ result' = obj
                     /\ pc' = IF obj = <<>> THEN "raised" ELSE "returned"
                     /\ error' = IF obj = <<>> THEN NdimError ELSE ""
    /\ UNCHANGED <<raw_result, qubo, properties, plot, mutations>>

\* ----------------------------------------------------------------- plots
NoPlot == [kind |-> "", x |-> <<>>, y |-> <<>>, y2 |-> <<>>, error |-> ""]

\* range(n) (lines 143, 179, 180)
Range(n) == [i \in 1..n |-> i - 1]

\* plot_expval_history (lines 141-145)
plot_expval_history ==
    /\ pc = "returned"
    /\ LET y == heap[result[1].expval_history].data
       IN  plot' = << [NoPlot EXCEPT !.kind = "expval_history", !.x = Range(Len(y)), !.y = y] >>
    /\ UNCHANGED <<raw_result, qubo, properties, heap, pc, error, result, evaluated, mutations>>

\* len(self.best_bitvector) (line 156)
NBitsOf(r) == Len(r.best_bitvector)

\* XValues with a fault: one position too few
XValuesShort(n_bits) == Product01(n_bits - 1)

\* line 157
XValues(n_bits) == Product01(n_bits)

\* int(s) without the base: decimal
RECURSIVE IntBase10(_)
IntBase10(s) ==
    IF Len(s) = 0 THEN 0
    ELSE 10 * IntBase10(SubSeq(s, 1, Len(s) - 1)) + (IF s[Len(s)] = "1" THEN 1 ELSE 0)

\* BucketIndex with a fault: the base argument of int() missing
BucketIndexDecimal(bitvector) == IntBase10(Str(bitvector))

\* BucketIndex with a fault: least significant bit first
BucketIndexLSB(bitvector) ==
    IntBase2([i \in 1..Len(bitvector) |-> Str(bitvector)[Len(bitvector) + 1 - i]])

\* line 160
BucketIndex(bitvector) == IntBase2(Str(bitvector))

\* one iteration of the loop body, lines 160-161, on acc = [height, ok]:
\* ok = FALSE once height[i] has raised IndexError
AccumulateStep(acc, entry) ==
    IF ~acc.ok THEN acc
    ELSE IF BucketIndex(entry[1]) >= Len(acc.height) THEN [acc EXCEPT !.ok = FALSE]
    ELSE [acc EXCEPT !.height[BucketIndex(entry[1]) + 1] = @ + entry[3]]

\* the loop of lines 159-161 after its first n iterations
RECURSIVE Accumulate(_, _, _)
Accumulate(height0, entries, n) ==
    IF n = 0 THEN [height |-> height0, ok |-> TRUE]
    ELSE AccumulateStep(Accumulate(height0, entries, n - 1), entries[n])

\* plot_shots_histogram (lines 154-166); an IndexError leaves nothing drawn
plot_shots_histogram ==
    /\ pc = "returned"
    /\ \E n_bits \in {NBitsOf(result[1])} :
       \E x_values \in {XValues(n_bits)} :
       \E height0 \in {[i \in 1..Len(x_values) |-> 0]} :
       \E entries \in {FreqIter(result[1].freq)} :
       \E acc \in {Accumulate(height0, entries, Len(entries))} :
          plot' = IF acc.ok
                  THEN << [NoPlot EXCEPT !.kind = "shots_histogram",
                                         !.x = x_values, !.y = acc.height] >>
                  ELSE << [NoPlot EXCEPT !.kind = "shots_histogram",
                                         !.error = "IndexError"] >>
    /\ UNCHANGED <<raw_result, qubo, properties, heap, pc, error, result, evaluated, mutations>>

\* plot_parameters (lines 175-184): Axes.plot raises ValueError when x and y differ
\* in length, after the beta series has been drawn
plot_parameters ==
    /\ pc = "returned"
    /\ LET beta == heap[result[1].final_beta].data
           gamma == heap[result[1].final_gamma].data
           depth == Len(beta)
       IN  plot' = IF Len(gamma) = depth
                   THEN << [NoPlot EXCEPT !.kind = "parameters", !.x = Range(depth),
                                          !.y = beta, !.y2 = gamma] >>
                   ELSE << [NoPlot EXCEPT !.kind = "parameters", !.x = Range(depth),
                                          !.y = beta, !.error = "ValueError"] >>
    /\ UNCHANGED <<raw_result, qubo, properties, heap, pc, error, result, evaluated, mutations>>

\* ------------------------------------------------------------ environment
\* the references the caller still holds after from_result: the lists in `properties`
CallerRefs == {properties.init_beta, properties.init_gamma, properties.final_beta,
               properties.final_gamma, properties.expval_history}

\* the caller mutates one of its own lists in place, after the build:
\* x.append(v) or x[i] = v
MutateCallerList ==
    /\ pc # "start"
    /\ mutations < MaxMutations
    /\ \E a \in CallerRefs : \E v \in 0..MaxParam :
          \/ /\ Len(heap[a].data) <= MaxDepth
             /\ heap' = [heap EXCEPT ![a].data = Append(@, v)]
          \/ \E i \in 1..Len(heap[a].data) :
                /\ heap[a].data[i] # v
                /\ heap' = [heap EXCEPT ![a].data[i] = v]
    /\ mutations' = mutations + 1
    /\ UNCHANGED <<raw_result, qubo, properties, pc, error, result, evaluated, plot>>

\* ------------------------------------------------------------------ Init
BitStrings(n) == [1..n -> {"0", "1"}]

\* dicts of at most MaxKeys distinct n-character keys with counts 1..MaxCount
RawMaps(n) ==
    UNION {{m \in [1..k -> [key : BitStrings(n), occ : 1..MaxCount]] :
               \A i, j \in 1..k : m[i].key = m[j].key => i = j} : k \in 0..MaxKeys}

KeyBitvectors(raw) == {BitVector(raw[i].key) : i \in 1..Len(raw)}

Zeros(n) == [i \in 1..n |-> 0]

Props == [init_beta |-> 1, init_gamma |-> 2, final_beta |-> 3, final_gamma |-> 4,
          expval_history |-> 5, training_backend |-> "training_backend",
          evaluation_backend |-> "evaluation_backend", optimizer |-> "optimizer"]

InitControl ==
    /\ properties = Props
    /\ pc = "start"
    /\ error = ""
    /\ result = <<>>
    /\ evaluated = <<>>
    /\ plot = <<>>
    /\ mutations = 0

\* every sample map within the bounds, with one fixed well-formed trace
Init ==
    /\ \E n \in 1..NBits : raw_result \in RawMaps(n)
    /\ qubo \in [KeyBitvectors(raw_result) -> 0..MaxScore]
    /\ heap = [a \in 1..5 |-> [ndim |-> 1, data |-> Zeros(1)]]
    /\ InitControl

\* the build and its histogram
Next ==
    \/ from_result
    \/ plot_shots_histogram

Spec == Init /\ [][Next]_vars

\* a few sample maps, with every trace within the bounds: p layers of mixer
\* parameters, q layers of cost parameters, a history of h values, and at most
\* one of the five arrays two-dimensional
InitTrace ==
    /\ raw_result \in {m \in RawMaps(1) : Len(m) <= 1 /\ \A i \in 1..Len(m) : m[i].occ = 1}
    /\ qubo \in [KeyBitvectors(raw_result) -> {0}]
    /\ \E p, q, h \in 0..MaxDepth : \E bad \in 0..5 :
          heap = [a \in 1..5 |->
                    [ndim |-> IF a = bad THEN 2 ELSE 1,
                     data |-> Zeros(IF a \in {1, 3} THEN p ELSE IF a \in {2, 4} THEN q ELSE h)]]
    /\ InitControl

\* the build, the three plots and the caller
NextTrace ==
    \/ from_result
    \/ plot_expval_history
    \/ plot_shots_histogram
    \/ plot_parameters
    \/ MutateCallerList

SpecTrace == InitTrace /\ [][NextTrace]_vars

\* ================================================================ properties
\* helpers of the properties (not part of the program)
Pow2(n) == 2 ^ n

RECURSIVE SeqSum(_)
SeqSum(q) == IF Len(q) = 0 THEN 0 ELSE q[Len(q)] + SeqSum(SubSeq(q, 1, Len(q) - 1))

\* the unsigned integer a bit sequence denotes, most significant bit first
Unsigned(b) == SeqSum([k \in 1..Len(b) |-> b[k] * Pow2(Len(b) - k)])

\* the n-character binary numeral of v
Numeral(v, n) == [k \in 1..n |-> IF (v \div Pow2(n - k)) % 2 = 1 THEN "1" ELSE "0"]

Built == Len(result) = 1
Table == FreqIter(result[1].freq)
HistogramDrawn == Len(plot) = 1 /\ plot[1].kind = "shots_histogram" /\ plot[1].error = ""
KeyLength == Len(raw_result[1].key)
TraceOf(r, h) == <<h[r.init_beta].data, h[r.init_gamma].data, h[r.final_beta].data,
                   h[r.final_gamma].data, h[r.expval_history].data>>
AllOneDimensional == \A a \in CallerRefs : heap[a].ndim = 1

\* C1: for a non-empty sample map from_result returns one best candidate; its
\* score is minimal in the table, its count is maximal among the entries of
\* minimal score, and it is the first entry that ties on both.
C1_BestEntry ==
    pc # "start" /\ Len(raw_result) > 0 =>
        /\ Built
        /\ \A T \in {Table} : \E i \in 1..Len(T) :
              /\ result[1].best_bitvector = T[i][1]
              /\ result[1].best_value = T[i][2]
              /\ \A j \in 1..Len(T) :
                    /\ T[j][2] >= T[i][2]
                    /\ T[j][2] = T[i][2] => T[j][3] <= T[i][3]
                    /\ (T[j][2] = T[i][2] /\ T[j][3] = T[i][3]) => i <= j

\* a build in which two entries tie on score and count and the earlier one is returned
C1_Witness ==
    /\ Built
    /\ \E i, j \in 1..Len(Table) :
          /\ i < j
          /\ Table[i][2] = Table[j][2]
          /\ Table[i][3] = Table[j][3]
          /\ result[1].best_bitvector = Table[i][1]

\* C2: for an empty sample map from_result raises the empty-result ValueError;
\* whenever from_result raises, no Result exists, and a Result exists only
\* once from_result has returned.
C2_EmptyFails ==
    /\ (pc # "start" /\ Len(raw_result) = 0) => (pc = "raised" /\ error = EmptyError)
    /\ pc = "raised" => (result = <<>> /\ error # "")
    /\ pc = "start" => result = <<>>
    /\ result # <<>> => (pc = "returned" /\ error = "")

\* a build of the empty map that has failed
C2_Witness == pc = "raised" /\ Len(raw_result) = 0 /\ error = EmptyError

C4_TableMirrorsMap ==
    Built => \A T \in {Table} :
        /\ Len(T) = Len(raw_result)
        /\ Len(T) = Cardinality({raw_result[i].key : i \in 1..Len(raw_result)})
        /\ \A i \in 1..Len(T) :
              /\ Str(T[i][1]) = raw_result[i].key
              /\ T[i][2] = qubo[T[i][1]]
              /\ T[i][3] = raw_result[i].occ

\* a table of two keys with different counts and different scores
C4_Witness ==
    /\ Built
    /\ Len(Table) = 2
    /\ Table[1][3] # Table[2][3]
    /\ Table[1][2] # Table[2][2]

\* C5: the histogram has 2^n buckets, n the candidate bit-length, and its
\* heights add up to the sum of the counts of the table.
C5_HistogramTotals ==
    HistogramDrawn =>
        /\ Len(plot[1].x) = Pow2(KeyLength)
        /\ Len(plot[1].y) = Pow2(KeyLength)
        /\ SeqSum(plot[1].y) = SeqSum(result[1].freq.num_occurrences)

\* a histogram over two-bit candidates of a table of two entries
C5_Witness ==
    HistogramDrawn /\ KeyLength = 2 /\ Len(Table) = 2 /\ SeqSum(plot[1].y) >= 3

\* C6: bucket v (counted from 0) is labelled with the n-character binary
\* numeral of v, and its height is the sum of the counts of the entries whose
\* candidate denotes v, most significant bit first; no such entry: height 0.
C6_HistogramBuckets ==
    HistogramDrawn => \A T \in {Table} :
        \A v \in 0..(Pow2(KeyLength) - 1) :
            /\ plot[1].x[v + 1] = Numeral(v, KeyLength)
            /\ plot[1].y[v + 1] =
                  SeqSum([i \in 1..Len(T) |-> IF Unsigned(T[i][1]) = v THEN T[i][3] ELSE 0])

\* a histogram with the candidate 01 observed and the candidate 10 not
C6_Witness ==
    /\ HistogramDrawn
    /\ KeyLength = 2
    /\ \E i \in 1..Len(Table) : Table[i][1] = <<0, 1>>
    /\ plot[1].y[2] > 0
    /\ plot[1].y[3] = 0

\* C7: once a Result is built, a mutation of the lists in `properties` leaves
\* the contents of the Result's five arrays as they were.
C7_CopiesOwned ==
    [][(Len(result) = 1 /\ Len(result') = 1) =>
          TraceOf(result[1], heap)' = TraceOf(result[1], heap)]_vars

\* the caller has changed final_beta after the build, and the Result's differs from it
C7_Witness ==
    /\ Built
    /\ mutations > 0
    /\ heap[properties.final_beta].data # heap[result[1].final_beta].data

\* C8: one build evaluates the scoring function exactly once for every key,
\* and not at all for the empty map, whose build fails.
C8_EvaluatedOnce ==
    pc # "start" =>
        /\ Len(evaluated) = Len(raw_result)
        /\ \A i \in 1..Len(raw_result) :
              Cardinality({k \in 1..Len(evaluated) :
                              evaluated[k] = BitVector(raw_result[i].key)}) = 1
        /\ Len(raw_result) = 0 => (evaluated = <<>> /\ pc = "raised")

\* a build of two keys, finished
C8_Witness == Built /\ Len(raw_result) = 2 /\ Len(evaluated) = 2

\* C9: the best candidate and the best score of a Result are the candidate
\* and the score of one entry of its table, and after every iteration of the
\* scan the running candidate, score and count are those of one entry seen.
C9_BestIsTableEntry ==
    Built => \A T \in {Table} :
        /\ \E i \in 1..Len(T) :
              result[1].best_bitvector = T[i][1] /\ result[1].best_value = T[i][2]
        /\ \A n \in 1..Len(T) : \A running \in {ScanPrefix(T, n)} :
              \E k \in 1..n :
                 running = [best_bitvector |-> <<T[k][1]>>, best_value |-> <<T[k][2]>>,
                            occ_best_bitvector |-> <<T[k][3]>>]

\* a build whose running best was replaced: the second entry is returned
C9_Witness ==
    /\ Built
    /\ Len(Table) = 2
    /\ result[1].best_bitvector = Table[2][1]
    /\ result[1].best_value < Table[1][2]

\* C10: the bucket list has 2^n entries, n the length of the best candidate;
\* when all keys have one length every entry's index is below that, and the
\* accumulation raises no IndexError.
C10_IndexInRange ==
    (Built /\ \A i, j \in 1..Len(raw_result) : Len(raw_result[i].key) = Len(raw_result[j].key)) =>
        /\ \A T \in {Table} : \A buckets \in {Len(XValues(NBitsOf(result[1])))} :
              \A i \in 1..Len(T) : BucketIndex(T[i][1]) < buckets
        /\ (Len(plot) = 1 /\ plot[1].kind = "shots_histogram") => plot[1].error = ""

\* a histogram whose last bucket is hit by an entry that is not the best one
C10_Witness ==
    /\ HistogramDrawn
    /\ \E i \in 1..Len(Table) :
          /\ Table[i][1] # result[1].best_bitvector
          /\ BucketIndex(Table[i][1]) = Len(plot[1].x) - 1

====
